---- MODULE Spec2Model ----
(***************************************************************************)
(* Model of client/option.go of kitex: the client Option constructors.     *)
(* An Option wraps one function F(o, di) that mutates the client Options o *)
(* and pushes a description of itself on the debug-info slice di; a Suite  *)
(* is an ordered list of Options applied as one nested group.  A panic of  *)
(* F unwinds the whole build.                                              *)
(***************************************************************************)
EXTENDS Integers, Sequences, FiniteSets, TLC

VARIABLES
    o,          \* the client.Options being built
    di,         \* the top-level debug-info slice (o.DebugInfo)
    panicked,   \* TRUE once an Option's F has panicked (the build is over)
    applied     \* the Options the driver has handed to F so far, in order

vars == <<o, di, panicked, applied>>

----------------------------------------------------------------------------
(* Bounds of the exploration.                                              *)

\* most Option nodes (suites and their members included) in one build
MaxFrags == 2
\* most Option nodes in one build of the suite-nesting specification
MaxSuiteFrags == 5

----------------------------------------------------------------------------
(* Values the Options are constructed with.                                *)

NilStr == "nil"

\* transport.Protocol identifiers; "Invalid" has no name (String() = Unknown)
KnownProtocols == {"TTHeader", "Framed", "GRPC"}
Protocols == KnownProtocols \cup {"Invalid"}
Unknown == "Unknown"

\* tp.String() of package transport
ProtocolString(tp) == IF tp \in KnownProtocols THEN tp ELSE Unknown

Services == {"svcA", "svcB"}

TCPAddrs == {"127.0.0.1:9000", "127.0.0.1:9001"}
UnixAddrs == {"/tmp/rpc.sock"}
BadAddrs == {"not-an-address"}

\* net.ResolveTCPAddr("tcp", hp) returned err == nil
ResolveTCPAddrOK(hp) == hp \in TCPAddrs
\* net.ResolveUnixAddr("unix", hp) returned err == nil
ResolveUnixAddrOK(hp) == hp \in UnixAddrs

HostPortLists ==
    { <<>>,
      <<"127.0.0.1:9000">>,
      <<"/tmp/rpc.sock">>,
      <<"not-an-address">>,
      <<"127.0.0.1:9000", "127.0.0.1:9001">>,
      <<"127.0.0.1:9000", "127.0.0.1:9000">>,
      <<"127.0.0.1:9000", "not-an-address">>,
      <<"/tmp/rpc.sock", "127.0.0.1:9001">> }

\* keys a caller may hand to Resolver.Resolve
LookupKeys == {"keyA", "keyB"}
Resolvers == {"resolverA"}
FailurePolicies == {"fp1", "fp2"}
BackupPolicies == {"bp1", "bp2"}
IdleConfigs == {"idle1", "idle2"}
Durations == {10, 20}
TagKeys == {"idc", "cluster"}
TagVals == {"v1", "v2"}
Tracers == {"tracer1", "tracer2"}
ConnNums == {2}
SuiteLabels == {"suiteA"}

\* discovery.DefaultWeight
DefaultWeight == "DefaultWeight"

----------------------------------------------------------------------------
(* utils.Slice entries: a string, or the nested struct WithSuite pushes.   *)

StringEntry(text) == [Kind |-> "string", Text |-> text, Suite |-> "", Options |-> <<>>]
NestedEntry(label, opts) == [Kind |-> "nested", Text |-> "", Suite |-> label, Options |-> opts]

\* utils.Slice.Push
Push(slice, e) == Append(slice, e)

RECURSIVE Join(_, _)
\* strings.Join(elems, sep)
Join(elems, sep) ==
    IF Len(elems) = 0 THEN ""
    ELSE IF Len(elems) = 1 THEN elems[1]
    ELSE elems[1] \o sep \o Join(Tail(elems), sep)

----------------------------------------------------------------------------
(* The client.Options record and its blank value.                          *)

NilRetryPolicy ==
    [Ptr |-> FALSE, FailurePolicy |-> NilStr, BackupPolicy |-> NilStr,
     Enable |-> FALSE, Type |-> "ZeroType"]

\* &retry.Policy{}
NewRetryPolicy ==
    [Ptr |-> TRUE, FailurePolicy |-> NilStr, BackupPolicy |-> NilStr,
     Enable |-> FALSE, Type |-> "ZeroType"]

NilResolver ==
    [Kind |-> "nil", Id |-> NilStr, Cacheable |-> FALSE, CacheKey |-> "",
     Instances |-> <<>>]

UserResolver(r) ==
    [Kind |-> "user", Id |-> r, Cacheable |-> FALSE, CacheKey |-> "",
     Instances |-> <<>>]

\* discovery.NewInstance(network, address, weight, nil)
NewInstance(network, address, weight) ==
    [Network |-> network, Address |-> address, Weight |-> weight]

\* &discovery.SynthesizedResolver{ResolveFunc: ..., NameFunc: ...}: ResolveFunc
\* returns the same Result for every key
SynthesizedResolver(ins) ==
    [Kind |-> "synthesized", Id |-> "fixed", Cacheable |-> TRUE, CacheKey |-> "fixed",
     Instances |-> ins]

\* the discovery.Result of ResolveFunc of a synthesized resolver with the lookup
\* key cached under the key it was asked for
ResolveFunc_KeyedCache(resolver, key) ==
    [Cacheable |-> resolver.Cacheable, CacheKey |-> key, Instances |-> resolver.Instances]

\* resolver.ResolveFunc(ctx, key) of the resolver WithHostPorts installs
ResolveFunc(resolver, key) ==
    [Cacheable |-> resolver.Cacheable, CacheKey |-> resolver.CacheKey,
     Instances |-> resolver.Instances]

NilConnPool == [Kind |-> "nil", ConnNum |-> 0]
\* nphttp2.NewConnPool()
Nphttp2ConnPool == [Kind |-> "nphttp2", ConnNum |-> 0]
\* netpollmux.NewMuxConnPool(connNum)
NewMuxConnPool(connNum) == [Kind |-> "netpollmux", ConnNum |-> connNum]

NilPoolCfg == [Ptr |-> FALSE, Cfg |-> NilStr]
\* connpool.CheckPoolConfig(cfg)
CheckPoolConfig(cfg) == [Ptr |-> TRUE, Cfg |-> cfg]

NilTracerCtl == [Ptr |-> FALSE, Tracers |-> <<>>]

BlankOptions ==
    [ServiceName |-> "",
     Once |-> FALSE,
     Tags |-> {},
     Targets |-> "",
     Resolver |-> NilResolver,
     HTTPResolver |-> NilStr,
     Balancer |-> NilStr,
     BalancerCacheOpt |-> NilStr,
     PoolCfg |-> NilPoolCfg,
     Logger |-> NilStr,
     MWBs |-> <<>>,
     IMWBs |-> <<>>,
     ConnPool |-> NilConnPool,
     CliHandlerFactory |-> NilStr,
     Codec |-> NilStr,
     PayloadCodec |-> NilStr,
     EnableConnPoolReporter |-> FALSE,
     TransportProtocol |-> "PurePayload",
     RPCTimeout |-> 0,
     ConnectTimeout |-> 0,
     LockBits |-> {},
     LockTags |-> {},
     RetryPolicy |-> NilRetryPolicy,
     TracerCtl |-> NilTracerCtl,
     StatsLevel |-> NilStr]

\* what one call of an Option's F leaves behind: the Options, the sink it was
\* given, and whether it panicked
Result(opts, sink, p) == [o |-> opts, di |-> sink, panicked |-> p]

----------------------------------------------------------------------------
(* Collaborators of other packages that the Options call.                  *)

\* configutil OptionOnce.OnceOrPanic: panics on its second call
OnceOrPanicPanics(opts) == opts.Once
OnceOrPanicMark(opts) == [opts EXCEPT !.Once = TRUE]

\* rpcinfo.AsMutableRPCConfig(o.Configs).SetTransportProtocol(tp)
SetTransportProtocol(opts, tp) == [opts EXCEPT !.TransportProtocol = tp]
\* rpcinfo.AsMutableRPCConfig(o.Configs).SetRPCTimeout(d)
SetRPCTimeout(opts, d) == [opts EXCEPT !.RPCTimeout = d]
\* rpcinfo.AsMutableRPCConfig(o.Configs).SetConnectTimeout(d)
SetConnectTimeout(opts, d) == [opts EXCEPT !.ConnectTimeout = d]

\* WithTransHandlerFactory(f).F(o, di), an Option of the same package
WithTransHandlerFactory(factory, opts, sink) ==
    Result([opts EXCEPT !.CliHandlerFactory = factory],
           Push(sink, StringEntry("WithTransHandlerFactory(" \o factory \o ")")),
           FALSE)

\* internal_stats.Controller.Append
TracerCtlAppend(ctl, c) == [ctl EXCEPT !.Tracers = Append(@, c)]

----------------------------------------------------------------------------
(* The Option constructors of client/option.go: each operator is the F of  *)
(* the Option, applied to the Options opts and the sink it is given.       *)

\* WithTransportProtocol installing the gRPC pool without its handler factory
WithTransportProtocol_PoolOnly(tp, opts, sink) ==
    LET tpName == ProtocolString(tp) IN
    IF tpName = Unknown THEN Result(opts, sink, TRUE)
    ELSE
        LET o1 == IF tp = "GRPC"
                  THEN [opts EXCEPT !.ConnPool = Nphttp2ConnPool]
                  ELSE opts
        IN Result(SetTransportProtocol(o1, tp),
                  Push(sink, StringEntry("WithTransportProtocol(" \o tpName \o ")")),
                  FALSE)

\* WithTransportProtocol installing the gRPC pool and factory for every protocol
WithTransportProtocol_AlwaysInstall(tp, opts, sink) ==
    LET tpName == ProtocolString(tp) IN
    IF tpName = Unknown THEN Result(opts, sink, TRUE)
    ELSE
        LET o1 == [opts EXCEPT !.ConnPool = Nphttp2ConnPool,
                               !.CliHandlerFactory = "nphttp2"]
        IN Result(SetTransportProtocol(o1, tp),
                  Push(sink, StringEntry("WithTransportProtocol(" \o tpName \o ")")),
                  FALSE)

\* WithTransportProtocol recording the protocol before it checks the name
WithTransportProtocol_SetFirst(tp, opts, sink) ==
    LET tpName == ProtocolString(tp)
        o0 == SetTransportProtocol(opts, tp)
    IN
    IF tpName = Unknown THEN Result(o0, sink, TRUE)
    ELSE
        LET o1 == IF tp = "GRPC"
                  THEN [o0 EXCEPT !.ConnPool = Nphttp2ConnPool,
                                  !.CliHandlerFactory = "nphttp2"]
                  ELSE o0
        IN Result(o1,
                  Push(sink, StringEntry("WithTransportProtocol(" \o tpName \o ")")),
                  FALSE)

WithTransportProtocol(tp, opts, sink) ==
    LET tpName == ProtocolString(tp) IN
    IF tpName = Unknown THEN Result(opts, sink, TRUE)
    ELSE
        LET o1 == IF tp = "GRPC"
                  THEN [opts EXCEPT !.ConnPool = Nphttp2ConnPool,
                                    !.CliHandlerFactory = "nphttp2"]
                  ELSE opts
        IN Result(SetTransportProtocol(o1, tp),
                  Push(sink, StringEntry("WithTransportProtocol(" \o tpName \o ")")),
                  FALSE)

WithMiddleware(mw, opts, sink) ==
    Result([opts EXCEPT !.MWBs = Append(@, mw)],
           Push(sink, StringEntry("WithMiddleware(" \o mw \o ")")),
           FALSE)

WithMiddlewareBuilder(mwb, opts, sink) ==
    Result([opts EXCEPT !.MWBs = Append(@, mwb)],
           Push(sink, StringEntry("WithMiddlewareBuilder(" \o mwb \o ")")),
           FALSE)

WithInstanceMW(mw, opts, sink) ==
    Result([opts EXCEPT !.IMWBs = Append(@, mw)],
           Push(sink, StringEntry("WithInstanceMW(" \o mw \o ")")),
           FALSE)

\* WithDestService with the assignment moved before o.Once.OnceOrPanic()
WithDestService_AssignFirst(svr, opts, sink) ==
    LET o1 == [opts EXCEPT !.ServiceName = svr] IN
    IF OnceOrPanicPanics(o1) THEN Result(o1, sink, TRUE)
    ELSE Result(OnceOrPanicMark(o1),
                Push(sink, StringEntry("WithDestService(" \o svr \o ")")),
                FALSE)

WithDestService(svr, opts, sink) ==
    IF OnceOrPanicPanics(opts) THEN Result(opts, sink, TRUE)
    ELSE Result([OnceOrPanicMark(opts) EXCEPT !.ServiceName = svr],
                Push(sink, StringEntry("WithDestService(" \o svr \o ")")),
                FALSE)

RECURSIVE ResolveAll_SkipInvalid(_, _)
\* the loop of WithHostPorts passing over an unresolvable address instead of panicking
ResolveAll_SkipInvalid(hostports, ins) ==
    IF Len(hostports) = 0 THEN [ok |-> TRUE, ins |-> ins]
    ELSE LET hp == Head(hostports) IN
         IF ResolveTCPAddrOK(hp)
         THEN ResolveAll_SkipInvalid(Tail(hostports),
                                     Append(ins, NewInstance("tcp", hp, DefaultWeight)))
         ELSE IF ResolveUnixAddrOK(hp)
         THEN ResolveAll_SkipInvalid(Tail(hostports),
                                     Append(ins, NewInstance("unix", hp, DefaultWeight)))
         ELSE ResolveAll_SkipInvalid(Tail(hostports), ins)

RECURSIVE ResolveAll(_, _)
\* the loop of WithHostPorts over hostports; ins is the list built so far
ResolveAll(hostports, ins) ==
    IF Len(hostports) = 0 THEN [ok |-> TRUE, ins |-> ins]
    ELSE LET hp == Head(hostports) IN
         IF ResolveTCPAddrOK(hp)
         THEN ResolveAll(Tail(hostports), Append(ins, NewInstance("tcp", hp, DefaultWeight)))
         ELSE IF ResolveUnixAddrOK(hp)
         THEN ResolveAll(Tail(hostports), Append(ins, NewInstance("unix", hp, DefaultWeight)))
         ELSE [ok |-> FALSE, ins |-> ins]

WithHostPorts(hostports, opts, sink) ==
    LET sink1 == Push(sink, StringEntry("WithHostPorts([" \o Join(hostports, " ") \o "])"))
        r == ResolveAll(hostports, <<>>)
    IN IF ~r.ok THEN Result(opts, sink1, TRUE)
       ELSE IF Len(r.ins) = 0 THEN Result(opts, sink1, TRUE)
       ELSE Result([opts EXCEPT !.Targets = Join(hostports, ","),
                                !.Resolver = SynthesizedResolver(r.ins)],
                   sink1, FALSE)

WithResolver(r, opts, sink) ==
    Result([opts EXCEPT !.Resolver = UserResolver(r)],
           Push(sink, StringEntry("WithResolver(" \o r \o ")")),
           FALSE)

WithHTTPResolver(r, opts, sink) ==
    Result([opts EXCEPT !.HTTPResolver = r],
           Push(sink, StringEntry("WithHTTPResolver(" \o r \o ")")),
           FALSE)

\* WithLongConnection replacing a pool configuration already set
WithLongConnection_LastWins(cfg, opts, sink) ==
    Result([opts EXCEPT !.PoolCfg = CheckPoolConfig(cfg)],
           Push(sink, StringEntry("WithLongConnection(" \o cfg \o ")")),
           FALSE)

WithLongConnection(cfg, opts, sink) ==
    Result(IF ~opts.PoolCfg.Ptr THEN [opts EXCEPT !.PoolCfg = CheckPoolConfig(cfg)] ELSE opts,
           Push(sink, StringEntry("WithLongConnection(" \o cfg \o ")")),
           FALSE)

\* WithMuxConnection leaving the transport protocol as it was
WithMuxConnection_NoProtocol(connNum, opts, sink) ==
    LET sink1 == Push(sink, StringEntry("WithMuxConnection"))
        o1 == [opts EXCEPT !.ConnPool = NewMuxConnPool(connNum)]
        r == WithTransHandlerFactory("netpollmux", o1, sink1)
    IN Result(r.o, r.di, r.panicked)

WithMuxConnection(connNum, opts, sink) ==
    LET sink1 == Push(sink, StringEntry("WithMuxConnection"))
        o1 == [opts EXCEPT !.ConnPool = NewMuxConnPool(connNum)]
        r == WithTransHandlerFactory("netpollmux", o1, sink1)
    IN Result(SetTransportProtocol(r.o, "TTHeader"), r.di, r.panicked)

WithLogger(logger, opts, sink) ==
    Result([opts EXCEPT !.Logger = logger],
           Push(sink, StringEntry("WithLogger(" \o logger \o ")")),
           FALSE)

\* lbopts is the variadic opts ...*lbcache.Options
WithLoadBalancer(lb, lbopts, opts, sink) ==
    LET o1 == [opts EXCEPT !.Balancer = lb] IN
    Result(IF Len(lbopts) > 0 THEN [o1 EXCEPT !.BalancerCacheOpt = lbopts[1]] ELSE o1,
           Push(sink, StringEntry("WithLoadBalancer(" \o lb \o ", [" \o Join(lbopts, " ") \o "])")),
           FALSE)

\* WithRPCTimeout assigning the lock bits where the code ORs its bit into them
WithRPCTimeout_AssignBits(d, opts, sink) ==
    LET o1 == SetRPCTimeout(opts, d) IN
    Result([o1 EXCEPT !.LockBits = {"BitRPCTimeout"}],
           Push(sink, StringEntry("WithRPCTimeout(" \o ToString(d) \o "ms)")),
           FALSE)

WithRPCTimeout(d, opts, sink) ==
    LET o1 == SetRPCTimeout(opts, d) IN
    Result([o1 EXCEPT !.LockBits = @ \cup {"BitRPCTimeout"}],
           Push(sink, StringEntry("WithRPCTimeout(" \o ToString(d) \o "ms)")),
           FALSE)

WithConnectTimeout(d, opts, sink) ==
    LET o1 == SetConnectTimeout(opts, d) IN
    Result([o1 EXCEPT !.LockBits = @ \cup {"BitConnectTimeout"}],
           Push(sink, StringEntry("WithConnectTimeout(" \o ToString(d) \o "ms)")),
           FALSE)

\* o.Svr.Tags[key] = val on the map kept as a set of key/value pairs
SetTag(tags, key, val) ==
    {t \in tags : t.key # key} \cup {[key |-> key, val |-> val]}

\* WithTag setting the tag without locking its key
WithTag_NoLock(key, val, opts, sink) ==
    Result([opts EXCEPT !.Tags = SetTag(@, key, val)],
           Push(sink, StringEntry("WithTag(" \o key \o "=" \o val \o ")")),
           FALSE)

WithTag(key, val, opts, sink) ==
    Result([opts EXCEPT !.Tags = SetTag(@, key, val),
                        !.LockTags = @ \cup {key}],
           Push(sink, StringEntry("WithTag(" \o key \o "=" \o val \o ")")),
           FALSE)

\* WithTracer keeping only the tracer registered last
WithTracer_Replaces(c, opts, sink) ==
    Result([opts EXCEPT !.TracerCtl = [Ptr |-> TRUE, Tracers |-> <<c>>]],
           Push(sink, StringEntry("WithTracer(" \o c \o ")")),
           FALSE)

WithTracer(c, opts, sink) ==
    LET ctl == IF ~opts.TracerCtl.Ptr THEN [Ptr |-> TRUE, Tracers |-> <<>>]
               ELSE opts.TracerCtl
    IN Result([opts EXCEPT !.TracerCtl = TracerCtlAppend(ctl, c)],
              Push(sink, StringEntry("WithTracer(" \o c \o ")")),
              FALSE)

WithStatsLevel(level, opts, sink) ==
    Result([opts EXCEPT !.StatsLevel = level],
           Push(sink, StringEntry("WithStatsLevel(" \o level \o ")")),
           FALSE)

WithCodec(c, opts, sink) ==
    Result([opts EXCEPT !.Codec = c],
           Push(sink, StringEntry("WithCodec(" \o c \o ")")),
           FALSE)

WithPayloadCodec(c, opts, sink) ==
    Result([opts EXCEPT !.PayloadCodec = c],
           Push(sink, StringEntry("WithPayloadCodec(" \o c \o ")")),
           FALSE)

WithConnReporterEnabled(opts, sink) ==
    Result([opts EXCEPT !.EnableConnPoolReporter = TRUE],
           Push(sink, StringEntry("WithConnReporterEnabled()")),
           FALSE)

\* WithFailureRetry pushing its entry before the nil check
WithFailureRetry_PushFirst(p, opts, sink) ==
    LET sink1 == Push(sink, StringEntry("WithFailureRetry(" \o p \o ")")) IN
    IF p = NilStr THEN Result(opts, sink1, FALSE)
    ELSE
        LET o1 == IF ~opts.RetryPolicy.Ptr
                  THEN [opts EXCEPT !.RetryPolicy = NewRetryPolicy]
                  ELSE opts
        IN IF o1.RetryPolicy.BackupPolicy # NilStr THEN Result(o1, sink1, TRUE)
           ELSE Result([o1 EXCEPT !.RetryPolicy.FailurePolicy = p,
                                  !.RetryPolicy.Enable = TRUE,
                                  !.RetryPolicy.Type = "FailureType"],
                       sink1, FALSE)

\* WithFailureRetry allocating o.RetryPolicy before the nil check
WithFailureRetry_NilAfterAlloc(p, opts, sink) ==
    LET o1 == IF ~opts.RetryPolicy.Ptr
              THEN [opts EXCEPT !.RetryPolicy = NewRetryPolicy]
              ELSE opts
    IN IF p = NilStr THEN Result(o1, sink, FALSE)
       ELSE
           LET sink1 == Push(sink, StringEntry("WithFailureRetry(" \o p \o ")")) IN
           IF o1.RetryPolicy.BackupPolicy # NilStr THEN Result(o1, sink1, TRUE)
           ELSE Result([o1 EXCEPT !.RetryPolicy.FailurePolicy = p,
                                  !.RetryPolicy.Enable = TRUE,
                                  !.RetryPolicy.Type = "FailureType"],
                       sink1, FALSE)

WithFailureRetry(p, opts, sink) ==
    IF p = NilStr THEN Result(opts, sink, FALSE)
    ELSE
        LET sink1 == Push(sink, StringEntry("WithFailureRetry(" \o p \o ")"))
            o1 == IF ~opts.RetryPolicy.Ptr
                  THEN [opts EXCEPT !.RetryPolicy = NewRetryPolicy]
                  ELSE opts
        IN IF o1.RetryPolicy.BackupPolicy # NilStr THEN Result(o1, sink1, TRUE)
           ELSE Result([o1 EXCEPT !.RetryPolicy.FailurePolicy = p,
                                  !.RetryPolicy.Enable = TRUE,
                                  !.RetryPolicy.Type = "FailureType"],
                       sink1, FALSE)

\* WithBackupRequest assigning the policy before it checks the other variant
WithBackupRequest_AssignFirst(p, opts, sink) ==
    IF p = NilStr THEN Result(opts, sink, FALSE)
    ELSE
        LET sink1 == Push(sink, StringEntry("WithBackupRequest(" \o p \o ")"))
            o1 == IF ~opts.RetryPolicy.Ptr
                  THEN [opts EXCEPT !.RetryPolicy = NewRetryPolicy]
                  ELSE opts
            o2 == [o1 EXCEPT !.RetryPolicy.BackupPolicy = p]
        IN IF o1.RetryPolicy.FailurePolicy # NilStr THEN Result(o2, sink1, TRUE)
           ELSE Result([o2 EXCEPT !.RetryPolicy.Enable = TRUE,
                                  !.RetryPolicy.Type = "BackupType"],
                       sink1, FALSE)

\* WithBackupRequest without the check of o.RetryPolicy.FailurePolicy
WithBackupRequest_NoConflictCheck(p, opts, sink) ==
    IF p = NilStr THEN Result(opts, sink, FALSE)
    ELSE
        LET sink1 == Push(sink, StringEntry("WithBackupRequest(" \o p \o ")"))
            o1 == IF ~opts.RetryPolicy.Ptr
                  THEN [opts EXCEPT !.RetryPolicy = NewRetryPolicy]
                  ELSE opts
        IN Result([o1 EXCEPT !.RetryPolicy.BackupPolicy = p,
                             !.RetryPolicy.Enable = TRUE,
                             !.RetryPolicy.Type = "BackupType"],
                  sink1, FALSE)

WithBackupRequest(p, opts, sink) ==
    IF p = NilStr THEN Result(opts, sink, FALSE)
    ELSE
        LET sink1 == Push(sink, StringEntry("WithBackupRequest(" \o p \o ")"))
            o1 == IF ~opts.RetryPolicy.Ptr
                  THEN [opts EXCEPT !.RetryPolicy = NewRetryPolicy]
                  ELSE opts
        IN IF o1.RetryPolicy.FailurePolicy # NilStr THEN Result(o1, sink1, TRUE)
           ELSE Result([o1 EXCEPT !.RetryPolicy.BackupPolicy = p,
                                  !.RetryPolicy.Enable = TRUE,
                                  !.RetryPolicy.Type = "BackupType"],
                       sink1, FALSE)

----------------------------------------------------------------------------
(* Options as values: the constructor's name and the arguments it closed   *)
(* over (s: the string arguments, n: the number, opts: a Suite's Options). *)

Opt(op, s, n, opts) == [op |-> op, s |-> s, n |-> n, opts |-> opts]

RECURSIVE F(_, _, _)
RECURSIVE SuiteLoop(_, _, _)

RECURSIVE SuiteLoop_KeepGoing(_, _, _)
\* the loop of WithSuite going on to the next member after a member panicked
SuiteLoop_KeepGoing(options, opts, nested) ==
    IF Len(options) = 0 THEN Result(opts, nested, FALSE)
    ELSE LET r == F(Head(options), opts, nested) IN
         SuiteLoop_KeepGoing(Tail(options), r.o, r.di)

\* for _, op := range suite.Options() { op.F(o, &nested.Options) }: a panic of
\* one op.F unwinds the loop
SuiteLoop(options, opts, nested) ==
    IF Len(options) = 0 THEN Result(opts, nested, FALSE)
    ELSE LET r == F(Head(options), opts, nested) IN
         IF r.panicked THEN r
         ELSE SuiteLoop(Tail(options), r.o, r.di)

\* WithSuite applying its members to a copy of the Options
WithSuite_CopiesOptions(suite, opts, sink) ==
    LET r == SuiteLoop(suite.opts, opts, <<>>) IN
    IF r.panicked THEN Result(opts, sink, TRUE)
    ELSE Result(opts, Push(sink, NestedEntry(suite.s[1], r.di)), FALSE)

\* WithSuite handing its members di instead of &nested.Options
WithSuite_SharedSink(suite, opts, sink) ==
    LET r == SuiteLoop(suite.opts, opts, sink) IN
    IF r.panicked THEN Result(r.o, r.di, TRUE)
    ELSE Result(r.o, Push(r.di, NestedEntry(suite.s[1], <<>>)), FALSE)

\* suite is the Option value: s[1] is the formatted suite, opts its Options()
WithSuite(suite, opts, sink) ==
    LET r == SuiteLoop(suite.opts, opts, <<>>) IN
    IF r.panicked THEN Result(r.o, sink, TRUE)
    ELSE Result(r.o, Push(sink, NestedEntry(suite.s[1], r.di)), FALSE)

\* op.F(o, di)
F(f, opts, sink) ==
    CASE f.op = "WithTransportProtocol" -> WithTransportProtocol(f.s[1], opts, sink)
      [] f.op = "WithSuite" -> WithSuite(f, opts, sink)
      [] f.op = "WithMiddleware" -> WithMiddleware(f.s[1], opts, sink)
      [] f.op = "WithMiddlewareBuilder" -> WithMiddlewareBuilder(f.s[1], opts, sink)
      [] f.op = "WithInstanceMW" -> WithInstanceMW(f.s[1], opts, sink)
      [] f.op = "WithDestService" -> WithDestService(f.s[1], opts, sink)
      [] f.op = "WithHostPorts" -> WithHostPorts(f.s, opts, sink)
      [] f.op = "WithResolver" -> WithResolver(f.s[1], opts, sink)
      [] f.op = "WithHTTPResolver" -> WithHTTPResolver(f.s[1], opts, sink)
      [] f.op = "WithLongConnection" -> WithLongConnection(f.s[1], opts, sink)
      [] f.op = "WithMuxConnection" -> WithMuxConnection(f.n, opts, sink)
      [] f.op = "WithLogger" -> WithLogger(f.s[1], opts, sink)
      [] f.op = "WithLoadBalancer" -> WithLoadBalancer(f.s[1], Tail(f.s), opts, sink)
      [] f.op = "WithRPCTimeout" -> WithRPCTimeout(f.n, opts, sink)
      [] f.op = "WithConnectTimeout" -> WithConnectTimeout(f.n, opts, sink)
      [] f.op = "WithTag" -> WithTag(f.s[1], f.s[2], opts, sink)
      [] f.op = "WithTracer" -> WithTracer(f.s[1], opts, sink)
      [] f.op = "WithStatsLevel" -> WithStatsLevel(f.s[1], opts, sink)
      [] f.op = "WithCodec" -> WithCodec(f.s[1], opts, sink)
      [] f.op = "WithPayloadCodec" -> WithPayloadCodec(f.s[1], opts, sink)
      [] f.op = "WithConnReporterEnabled" -> WithConnReporterEnabled(opts, sink)
      [] f.op = "WithFailureRetry" -> WithFailureRetry(f.s[1], opts, sink)
      [] f.op = "WithBackupRequest" -> WithBackupRequest(f.s[1], opts, sink)

----------------------------------------------------------------------------
(* The Options a caller can construct.                                     *)

NoOpts == <<>>

OptsWithTransportProtocol == { Opt("WithTransportProtocol", <<tp>>, 0, NoOpts) : tp \in Protocols }
OptsWithMiddleware == { Opt("WithMiddleware", <<"mw1">>, 0, NoOpts) }
OptsWithMiddlewareBuilder == { Opt("WithMiddlewareBuilder", <<"mwb1">>, 0, NoOpts) }
OptsWithInstanceMW == { Opt("WithInstanceMW", <<"imw1">>, 0, NoOpts) }
OptsWithDestService == { Opt("WithDestService", <<svr>>, 0, NoOpts) : svr \in Services }
OptsWithHostPorts == { Opt("WithHostPorts", hps, 0, NoOpts) : hps \in HostPortLists }
OptsWithResolver == { Opt("WithResolver", <<r>>, 0, NoOpts) : r \in Resolvers }
OptsWithHTTPResolver == { Opt("WithHTTPResolver", <<"httpResolverA">>, 0, NoOpts) }
OptsWithLongConnection == { Opt("WithLongConnection", <<cfg>>, 0, NoOpts) : cfg \in IdleConfigs }
OptsWithMuxConnection == { Opt("WithMuxConnection", <<>>, n, NoOpts) : n \in ConnNums }
OptsWithLogger == { Opt("WithLogger", <<"loggerA">>, 0, NoOpts) }
OptsWithLoadBalancer ==
    { Opt("WithLoadBalancer", s, 0, NoOpts) : s \in {<<"lbA">>, <<"lbA", "lbcacheA">>} }
OptsWithRPCTimeout == { Opt("WithRPCTimeout", <<>>, d, NoOpts) : d \in Durations }
OptsWithConnectTimeout == { Opt("WithConnectTimeout", <<>>, d, NoOpts) : d \in Durations }
OptsWithTag == { Opt("WithTag", <<k, v>>, 0, NoOpts) : k \in TagKeys, v \in TagVals }
OptsWithTracer == { Opt("WithTracer", <<c>>, 0, NoOpts) : c \in Tracers }
OptsWithStatsLevel == { Opt("WithStatsLevel", <<"LevelBase">>, 0, NoOpts) }
OptsWithCodec == { Opt("WithCodec", <<"codecA">>, 0, NoOpts) }
OptsWithPayloadCodec == { Opt("WithPayloadCodec", <<"payloadCodecA">>, 0, NoOpts) }
OptsWithConnReporterEnabled == { Opt("WithConnReporterEnabled", <<>>, 0, NoOpts) }
OptsWithFailureRetry ==
    { Opt("WithFailureRetry", <<p>>, 0, NoOpts) : p \in FailurePolicies \cup {NilStr} }
OptsWithBackupRequest ==
    { Opt("WithBackupRequest", <<p>>, 0, NoOpts) : p \in BackupPolicies \cup {NilStr} }

\* every Option that is not a suite
Leaves ==
    OptsWithTransportProtocol \cup OptsWithMiddleware \cup OptsWithMiddlewareBuilder
    \cup OptsWithInstanceMW \cup OptsWithDestService \cup OptsWithHostPorts
    \cup OptsWithResolver \cup OptsWithHTTPResolver \cup OptsWithLongConnection
    \cup OptsWithMuxConnection \cup OptsWithLogger \cup OptsWithLoadBalancer
    \cup OptsWithRPCTimeout \cup OptsWithConnectTimeout \cup OptsWithTag
    \cup OptsWithTracer \cup OptsWithStatsLevel \cup OptsWithCodec
    \cup OptsWithPayloadCodec \cup OptsWithConnReporterEnabled
    \cup OptsWithFailureRetry \cup OptsWithBackupRequest

\* the Options the suite-nesting specification builds from
NestLeaves ==
    { Opt("WithDestService", <<"svcA">>, 0, NoOpts),
      Opt("WithTag", <<"idc", "v1">>, 0, NoOpts),
      Opt("WithFailureRetry", <<NilStr>>, 0, NoOpts),
      Opt("WithMuxConnection", <<>>, 2, NoOpts),
      Opt("WithHostPorts", <<>>, 0, NoOpts) }

RECURSIVE Size(_)
RECURSIVE SizeAll(_)
\* the number of Options in f, f itself and the members of suites included
Size(f) == 1 + SizeAll(f.opts)
SizeAll(fs) == IF Len(fs) = 0 THEN 0 ELSE Size(Head(fs)) + SizeAll(Tail(fs))

\* the Options of exactly k nodes with leaves in A, given lists[i + 1], the
\* lists of Options of exactly i nodes in all, for every i < k
OptionsOfSize(A, lists, k) ==
    (IF k = 1 THEN A ELSE {})
    \cup { Opt("WithSuite", <<label>>, 0, fs) : label \in SuiteLabels, fs \in lists[k] }

RECURSIVE ListsBySize(_, _, _)
\* lists extended up to the lists of exactly max nodes
ListsBySize(A, lists, max) ==
    IF Len(lists) > max THEN lists
    ELSE LET n == Len(lists)
             more == UNION { { <<f>> \o fs : f \in OptionsOfSize(A, lists, k),
                                             fs \in lists[n - k + 1] } : k \in 1..n }
         IN ListsBySize(A, Append(lists, more), max)

\* the WithSuite Options of at most n nodes over the leaves A
SuitesOver(A, n) ==
    LET lists == ListsBySize(A, << {<<>>} >>, n - 1) IN
    UNION { { Opt("WithSuite", <<label>>, 0, fs) : label \in SuiteLabels, fs \in lists[k] } :
              k \in 1..n }

\* Suites[n]: the WithSuite Options of at most n nodes
Suites == [n \in 0..MaxFrags |-> SuitesOver(Leaves, n)]
NestSuites == [n \in 0..MaxSuiteFrags |-> SuitesOver(NestLeaves, n)]

----------------------------------------------------------------------------
(* The build: Options.Apply hands each Option, in order, the Options and   *)
(* the top-level sink; a panic ends it.                                    *)

Init ==
    /\ o = BlankOptions
    /\ di = <<>>
    /\ panicked = FALSE
    /\ applied = <<>>

\* nodes still free under the bound
Room(bound) == bound - SizeAll(applied)

\* one turn of the loop of Options.Apply: op.F(o, &o.DebugInfo)
Apply(f) ==
    /\ ~panicked
    /\ LET r == F(f, o, di) IN
        /\ o' = r.o
        /\ di' = r.di
        /\ panicked' = r.panicked
    /\ applied' = Append(applied, f)

DoWithTransportProtocol ==
    \E f \in OptsWithTransportProtocol :
        /\ Room(MaxFrags) >= 1
        /\ Apply(f)
DoWithSuite ==
    \E f \in Suites[Room(MaxFrags)] :
        /\ Room(MaxFrags) >= 1
        /\ Apply(f)
DoWithMiddleware ==
    \E f \in OptsWithMiddleware :
        /\ Room(MaxFrags) >= 1
        /\ Apply(f)
DoWithMiddlewareBuilder ==
    \E f \in OptsWithMiddlewareBuilder :
        /\ Room(MaxFrags) >= 1
        /\ Apply(f)
DoWithInstanceMW ==
    \E f \in OptsWithInstanceMW :
        /\ Room(MaxFrags) >= 1
        /\ Apply(f)
DoWithDestService ==
    \E f \in OptsWithDestService :
        /\ Room(MaxFrags) >= 1
        /\ Apply(f)
DoWithHostPorts ==
    \E f \in OptsWithHostPorts :
        /\ Room(MaxFrags) >= 1
        /\ Apply(f)
DoWithResolver ==
    \E f \in OptsWithResolver :
        /\ Room(MaxFrags) >= 1
        /\ Apply(f)
DoWithHTTPResolver ==
    \E f \in OptsWithHTTPResolver :
        /\ Room(MaxFrags) >= 1
        /\ Apply(f)
DoWithLongConnection ==
    \E f \in OptsWithLongConnection :
        /\ Room(MaxFrags) >= 1
        /\ Apply(f)
DoWithMuxConnection ==
    \E f \in OptsWithMuxConnection :
        /\ Room(MaxFrags) >= 1
        /\ Apply(f)
DoWithLogger ==
    \E f \in OptsWithLogger :
        /\ Room(MaxFrags) >= 1
        /\ Apply(f)
DoWithLoadBalancer ==
    \E f \in OptsWithLoadBalancer :
        /\ Room(MaxFrags) >= 1
        /\ Apply(f)
DoWithRPCTimeout ==
    \E f \in OptsWithRPCTimeout :
        /\ Room(MaxFrags) >= 1
        /\ Apply(f)
DoWithConnectTimeout ==
    \E f \in OptsWithConnectTimeout :
        /\ Room(MaxFrags) >= 1
        /\ Apply(f)
DoWithTag ==
    \E f \in OptsWithTag :
        /\ Room(MaxFrags) >= 1
        /\ Apply(f)
DoWithTracer ==
    \E f \in OptsWithTracer :
        /\ Room(MaxFrags) >= 1
        /\ Apply(f)
DoWithStatsLevel ==
    \E f \in OptsWithStatsLevel :
        /\ Room(MaxFrags) >= 1
        /\ Apply(f)
DoWithCodec ==
    \E f \in OptsWithCodec :
        /\ Room(MaxFrags) >= 1
        /\ Apply(f)
DoWithPayloadCodec ==
    \E f \in OptsWithPayloadCodec :
        /\ Room(MaxFrags) >= 1
        /\ Apply(f)
DoWithConnReporterEnabled ==
    \E f \in OptsWithConnReporterEnabled :
        /\ Room(MaxFrags) >= 1
        /\ Apply(f)
DoWithFailureRetry ==
    \E f \in OptsWithFailureRetry :
        /\ Room(MaxFrags) >= 1
        /\ Apply(f)
DoWithBackupRequest ==
    \E f \in OptsWithBackupRequest :
        /\ Room(MaxFrags) >= 1
        /\ Apply(f)

Next ==
    \/ DoWithTransportProtocol
    \/ DoWithSuite
    \/ DoWithMiddleware
    \/ DoWithMiddlewareBuilder
    \/ DoWithInstanceMW
    \/ DoWithDestService
    \/ DoWithHostPorts
    \/ DoWithResolver
    \/ DoWithHTTPResolver
    \/ DoWithLongConnection
    \/ DoWithMuxConnection
    \/ DoWithLogger
    \/ DoWithLoadBalancer
    \/ DoWithRPCTimeout
    \/ DoWithConnectTimeout
    \/ DoWithTag
    \/ DoWithTracer
    \/ DoWithStatsLevel
    \/ DoWithCodec
    \/ DoWithPayloadCodec
    \/ DoWithConnReporterEnabled
    \/ DoWithFailureRetry
    \/ DoWithBackupRequest

Spec == Init /\ [][Next]_vars

\* builds of nested suites over NestLeaves, up to MaxSuiteFrags nodes
NestWithDestService ==
    \E f \in {g \in NestLeaves : g.op = "WithDestService"} :
        /\ Room(MaxSuiteFrags) >= 1
        /\ Apply(f)
NestWithTag ==
    \E f \in {g \in NestLeaves : g.op = "WithTag"} :
        /\ Room(MaxSuiteFrags) >= 1
        /\ Apply(f)
NestWithFailureRetry ==
    \E f \in {g \in NestLeaves : g.op = "WithFailureRetry"} :
        /\ Room(MaxSuiteFrags) >= 1
        /\ Apply(f)
NestWithMuxConnection ==
    \E f \in {g \in NestLeaves : g.op = "WithMuxConnection"} :
        /\ Room(MaxSuiteFrags) >= 1
        /\ Apply(f)
NestWithHostPorts ==
    \E f \in {g \in NestLeaves : g.op = "WithHostPorts"} :
        /\ Room(MaxSuiteFrags) >= 1
        /\ Apply(f)
NestWithSuite ==
    \E f \in NestSuites[Room(MaxSuiteFrags)] :
        /\ Room(MaxSuiteFrags) >= 1
        /\ Apply(f)

NestNext ==
    \/ NestWithDestService
    \/ NestWithTag
    \/ NestWithFailureRetry
    \/ NestWithMuxConnection
    \/ NestWithHostPorts
    \/ NestWithSuite

NestSpec == Init /\ [][NestNext]_vars

----------------------------------------------------------------------------
(* Helpers of the properties.                                              *)

OptWithDestService(svr) == Opt("WithDestService", <<svr>>, 0, NoOpts)
OptWithFailureRetry(p) == Opt("WithFailureRetry", <<p>>, 0, NoOpts)
OptWithBackupRequest(p) == Opt("WithBackupRequest", <<p>>, 0, NoOpts)
OptWithHostPorts(hps) == Opt("WithHostPorts", hps, 0, NoOpts)
OptWithResolver(r) == Opt("WithResolver", <<r>>, 0, NoOpts)
OptWithTag(k, v) == Opt("WithTag", <<k, v>>, 0, NoOpts)
OptWithMuxConnection(n) == Opt("WithMuxConnection", <<>>, n, NoOpts)
OptWithTransportProtocol(tp) == Opt("WithTransportProtocol", <<tp>>, 0, NoOpts)
OptWithLongConnection(cfg) == Opt("WithLongConnection", <<cfg>>, 0, NoOpts)
OptWithRPCTimeout(d) == Opt("WithRPCTimeout", <<>>, d, NoOpts)
OptWithConnectTimeout(d) == Opt("WithConnectTimeout", <<>>, d, NoOpts)
OptWithTracer(c) == Opt("WithTracer", <<c>>, 0, NoOpts)
OptWithSuite(label, fs) == Opt("WithSuite", <<label>>, 0, fs)

\* this step hands the Option f to the build
Applying(f) == applied' = Append(applied, f)

RECURSIVE FlatLeaves(_)
\* the Options of the list fs that are not suites, suites opened, in list order
FlatLeaves(fs) ==
    IF Len(fs) = 0 THEN <<>>
    ELSE (IF Head(fs).op = "WithSuite" THEN FlatLeaves(Head(fs).opts) ELSE <<Head(fs)>>)
         \o FlatLeaves(Tail(fs))

\* the places of FlatLeaves(applied) that hold a non-nil policy of constructor op
PolicyPlaces(op) ==
    LET fl == FlatLeaves(applied) IN
    { i \in 1..Len(fl) : fl[i].op = op /\ fl[i].s[1] # NilStr }

Max(S) == CHOOSE x \in S : \A y \in S : y <= x
Min(S) == CHOOSE x \in S : \A y \in S : x <= y

RECURSIVE SuiteDepth(_)
\* how deep the suites of the list fs nest (0: no suite)
SuiteDepth(fs) ==
    IF Len(fs) = 0 THEN 0
    ELSE Max({ IF Head(fs).op = "WithSuite" THEN 1 + SuiteDepth(Head(fs).opts) ELSE 0,
               SuiteDepth(Tail(fs)) })

RECURSIVE TraceDepth(_)
\* how deep the nested entries of the slice nest (0: strings only)
TraceDepth(slice) ==
    IF Len(slice) = 0 THEN 0
    ELSE Max({ IF Head(slice).Kind = "nested" THEN 1 + TraceDepth(Head(slice).Options) ELSE 0,
               TraceDepth(Tail(slice)) })

\* what a leaf Option pushes when it is applied alone to blank Options
OwnEntries(f) == F(f, BlankOptions, <<>>).di

RECURSIVE TraceOf(_)
\* each Option's entries in list order, a suite being one nested entry that holds
\* the entries of its own members
TraceOf(fs) ==
    IF Len(fs) = 0 THEN <<>>
    ELSE (IF Head(fs).op = "WithSuite"
          THEN << NestedEntry(Head(fs).s[1], TraceOf(Head(fs).opts)) >>
          ELSE OwnEntries(Head(fs)))
         \o TraceOf(Tail(fs))

----------------------------------------------------------------------------
(* C1: when every Option of the build was applied without panic, the       *)
(* top-level slice holds the Options' entries in the order they were       *)
(* applied; each WithSuite is exactly one nested entry, standing where the *)
(* suite stood among its siblings and holding the entries of its members   *)
(* in their order, and the slice nests exactly as deep as the suites do.   *)
C1_TraceMirrorsApplication ==
    ~panicked =>
        /\ di = TraceOf(applied)
        /\ TraceDepth(di) = SuiteDepth(applied)

C1_Witness ==
    /\ ~panicked
    /\ Len(applied) = 2
    /\ Len(di) = 2
    /\ di[1].Kind = "string"
    /\ di[2].Kind = "nested"
    /\ Len(di[2].Options) = 2
    /\ di[2].Options[1].Kind = "nested"
    /\ Len(di[2].Options[1].Options) = 1
    /\ di[2].Options[2].Kind = "string"

----------------------------------------------------------------------------
(* C2: no build applies a non-nil WithFailureRetry and a non-nil           *)
(* WithBackupRequest without panic: in either order the second of the two  *)
(* panics.  A build that applied only one of the two kinds leaves          *)
(* RetryPolicy holding that variant (the last policy given), Enable true   *)
(* and Type the variant's tag.                                             *)
C2_RetryVariantsExclusive ==
    LET fl == FlatLeaves(applied)
        fs == PolicyPlaces("WithFailureRetry")
        bs == PolicyPlaces("WithBackupRequest")
    IN /\ (fs # {} /\ bs # {}) => panicked
       /\ \A p \in FailurePolicies, q \in BackupPolicies :
            /\ applied = <<OptWithFailureRetry(p), OptWithBackupRequest(q)>> => panicked
            /\ applied = <<OptWithBackupRequest(q), OptWithFailureRetry(p)>> => panicked
       /\ (~panicked /\ fs # {}) =>
            o.RetryPolicy = [Ptr |-> TRUE, FailurePolicy |-> fl[Max(fs)].s[1],
                             BackupPolicy |-> NilStr, Enable |-> TRUE,
                             Type |-> "FailureType"]
       /\ (~panicked /\ bs # {}) =>
            o.RetryPolicy = [Ptr |-> TRUE, FailurePolicy |-> NilStr,
                             BackupPolicy |-> fl[Max(bs)].s[1], Enable |-> TRUE,
                             Type |-> "BackupType"]

C2_Witness ==
    /\ panicked
    /\ applied = <<OptWithFailureRetry("fp1"), OptWithBackupRequest("bp1")>>
    /\ o.RetryPolicy.FailurePolicy = "fp1"
    /\ o.RetryPolicy.Type = "FailureType"

----------------------------------------------------------------------------
(* C3: a WithDestService handed to a build that already applied one        *)
(* panics, and leaves the service name the first one set and the slice as  *)
(* they were.                                                              *)
C3_SecondDestServicePanics ==
    [][\A svr \in Services :
         LET fl == FlatLeaves(applied)
             first == { i \in 1..Len(fl) : fl[i].op = "WithDestService" }
         IN (Applying(OptWithDestService(svr)) /\ first # {}) =>
                /\ panicked'
                /\ o'.ServiceName = fl[Min(first)].s[1]
                /\ o'.ServiceName = o.ServiceName
                /\ di' = di]_vars

C3_Witness ==
    /\ panicked
    /\ applied = <<OptWithDestService("svcA"), OptWithDestService("svcB")>>
    /\ o.ServiceName = "svcA"
    /\ Len(di) = 1

----------------------------------------------------------------------------
(* C4: a build that applied WithResolver and WithHostPorts without panic,  *)
(* in either order, ends with the resolver WithHostPorts built from its    *)
(* addresses and with Targets the comma-joined addresses.                  *)
C4_HostPortsOverridesResolver ==
    LET fl == FlatLeaves(applied)
        hp == { i \in 1..Len(fl) : fl[i].op = "WithHostPorts" }
        rs == { i \in 1..Len(fl) : fl[i].op = "WithResolver" }
    IN (~panicked /\ hp # {} /\ rs # {}) =>
           /\ o.Resolver = SynthesizedResolver(ResolveAll(fl[Max(hp)].s, <<>>).ins)
           /\ o.Targets = Join(fl[Max(hp)].s, ",")

----------------------------------------------------------------------------
(* C5: every Option applied without panic pushes exactly one entry on the  *)
(* sink it was given.                                                      *)
C5_ExactlyOneEntry ==
    [][(applied' # applied /\ ~panicked') => Len(di') = Len(di) + 1]_vars

\* the entries an Option pushes on its own sink when it does not panic
EntriesPushed(f) ==
    IF f.op \in {"WithFailureRetry", "WithBackupRequest"} /\ f.s[1] = NilStr THEN 0
    ELSE IF f.op = "WithMuxConnection" THEN 2
    ELSE 1

RECURSIVE EntryCountsMatch(_, _)
\* slice is what the Options fs pushed: each as many entries as EntriesPushed
\* says, a suite's one entry nested and holding what its members pushed
EntryCountsMatch(fs, slice) ==
    IF Len(fs) = 0 THEN Len(slice) = 0
    ELSE LET f == Head(fs)
             n == EntriesPushed(f)
         IN /\ Len(slice) >= n
            /\ f.op = "WithSuite" =>
                 /\ slice[1].Kind = "nested"
                 /\ EntryCountsMatch(f.opts, slice[1].Options)
            /\ f.op # "WithSuite" => \A i \in 1..n : slice[i].Kind = "string"
            /\ EntryCountsMatch(Tail(fs), SubSeq(slice, n + 1, Len(slice)))

(* C5, amended: every Option applied without panic pushes exactly one      *)
(* entry on the sink it was given, except WithFailureRetry(nil) and        *)
(* WithBackupRequest(nil), which push none, and WithMuxConnection, which   *)
(* pushes two (its own and the one of WithTransHandlerFactory).            *)
C5_EntriesPerOption == ~panicked => EntryCountsMatch(applied, di)

C5_Witness ==
    /\ ~panicked
    /\ applied = <<OptWithFailureRetry(NilStr), OptWithMuxConnection(2)>>
    /\ Len(di) = 2

----------------------------------------------------------------------------
(* C6: an Option that panics has pushed no entry and changed no field of   *)
(* the Options.                                                            *)
C6_PanicLeavesNoTrace ==
    [][\A f \in Leaves : (Applying(f) /\ panicked') => (o' = o /\ di' = di)]_vars

----------------------------------------------------------------------------
(* C7: WithFailureRetry(nil) and WithBackupRequest(nil) never panic and    *)
(* change neither the Options nor the slice, whatever the state.           *)
C7_NilPolicyIsNoOp ==
    [][(Applying(OptWithFailureRetry(NilStr)) \/ Applying(OptWithBackupRequest(NilStr))) =>
           (~panicked' /\ o' = o /\ di' = di)]_vars

C7_Witness ==
    /\ ~panicked
    /\ applied = <<OptWithBackupRequest("bp1"), OptWithFailureRetry(NilStr)>>
    /\ o.RetryPolicy.BackupPolicy = "bp1"
    /\ o.RetryPolicy.Type = "BackupType"
    /\ Len(di) = 1

----------------------------------------------------------------------------
RECURSIVE RunLeaves(_, _)
\* the leaves applied one after the other up to, and with, the first that panics
RunLeaves(leaves, opts) ==
    IF Len(leaves) = 0 THEN [o |-> opts, panicked |-> FALSE]
    ELSE LET r == F(Head(leaves), opts, <<>>) IN
         IF r.panicked THEN [o |-> r.o, panicked |-> TRUE]
         ELSE RunLeaves(Tail(leaves), r.o)

(* C8: the first panic ends the build: the Options are what the leaves of  *)
(* the build, suites opened, leave when applied in order up to the first   *)
(* that panics; no later Option of the suite, of an enclosing suite or of  *)
(* the list has acted and nothing done before the panic is undone.         *)
C8_FirstPanicEndsBuild ==
    LET run == RunLeaves(FlatLeaves(applied), BlankOptions) IN
    /\ o = run.o
    /\ panicked = run.panicked

C8_Witness ==
    /\ panicked
    /\ applied = << OptWithSuite("suiteA",
                      << OptWithSuite("suiteA", << OptWithTag("idc", "v1"),
                                                   OptWithHostPorts(<<>>) >>),
                         OptWithMuxConnection(2) >>) >>
    /\ o.Tags = {[key |-> "idc", val |-> "v1"]}
    /\ o.ConnPool = NilConnPool
    /\ di = <<>>

----------------------------------------------------------------------------
RECURSIVE RunDirect(_, _, _)
\* the Options fs applied directly, one by one in list order, to opts and sink
RunDirect(fs, opts, sink) ==
    IF Len(fs) = 0 THEN Result(opts, sink, FALSE)
    ELSE LET r == F(Head(fs), opts, sink) IN
         IF r.panicked THEN r ELSE RunDirect(Tail(fs), r.o, r.di)

(* C9: applying WithSuite(suite) leaves the Options, and panics or not, as *)
(* applying the suite's members directly one by one does; the slice gets   *)
(* one nested entry holding the entries the members would have pushed.     *)
C9_SuiteEqualsMembers ==
    [][applied' # applied =>
         LET f == applied'[Len(applied')]
             r == RunDirect(f.opts, o, <<>>)
         IN f.op = "WithSuite" =>
              /\ o' = r.o
              /\ panicked' = r.panicked
              /\ ~r.panicked => di' = Append(di, NestedEntry(f.s[1], r.di))]_vars

C9_Witness ==
    /\ ~panicked
    /\ Len(applied) = 2
    /\ applied[1] = OptWithDestService("svcA")
    /\ applied[2] = OptWithSuite("suiteA", << OptWithMuxConnection(2), OptWithTag("idc", "v1") >>)
    /\ o.ServiceName = "svcA"
    /\ o.ConnPool = NewMuxConnPool(2)
    /\ Len(di) = 2
    /\ Len(di[2].Options) = 3

----------------------------------------------------------------------------
\* hps has no address, or one that resolves neither as TCP nor as unix address
Unresolvable(hps) ==
    \/ Len(hps) = 0
    \/ \E i \in 1..Len(hps) : ~ResolveTCPAddrOK(hps[i]) /\ ~ResolveUnixAddrOK(hps[i])

(* C10: WithHostPorts with no address, or with an address that resolves    *)
(* neither as TCP nor as unix address, panics, and Resolver and Targets    *)
(* keep the values they had.                                               *)
C10_BadHostPortsPanics ==
    [][\A hps \in HostPortLists :
         (Applying(OptWithHostPorts(hps)) /\ Unresolvable(hps)) =>
             /\ panicked'
             /\ o'.Resolver = o.Resolver
             /\ o'.Targets = o.Targets]_vars

C10_Witness ==
    /\ panicked
    /\ applied = << OptWithHostPorts(<<"/tmp/rpc.sock", "127.0.0.1:9001">>),
                    OptWithHostPorts(<<"127.0.0.1:9000", "not-an-address">>) >>
    /\ o.Targets = "/tmp/rpc.sock,127.0.0.1:9001"
    /\ Len(o.Resolver.Instances) = 2

----------------------------------------------------------------------------
\* the Option the build applied last
LastApplied == applied[Len(applied)]

(* C11: WithHostPorts with n >= 1 addresses that all resolve does not      *)
(* panic and installs a resolver whose result is, for every lookup key,    *)
(* cacheable under the one key "fixed" and holds exactly n instances, the  *)
(* i-th for the i-th address, duplicates kept.                             *)
C11_FixedResolverResult ==
    (Len(applied) > 0 /\ LastApplied.op = "WithHostPorts" /\ ~Unresolvable(LastApplied.s)) =>
        LET hps == LastApplied.s IN
        /\ ~panicked
        /\ o.Resolver.Kind = "synthesized"
        /\ \A key \in LookupKeys :
             LET res == ResolveFunc(o.Resolver, key) IN
             /\ res.Cacheable
             /\ res.CacheKey = "fixed"
             /\ Len(res.Instances) = Len(hps)
             /\ \A i \in 1..Len(hps) :
                  /\ res.Instances[i].Address = hps[i]
                  /\ res.Instances[i].Network =
                       (IF ResolveTCPAddrOK(hps[i]) THEN "tcp" ELSE "unix")
        /\ \A k1, k2 \in LookupKeys :
             ResolveFunc(o.Resolver, k1) = ResolveFunc(o.Resolver, k2)

C11_Witness ==
    /\ ~panicked
    /\ applied = << OptWithResolver("resolverA"),
                    OptWithHostPorts(<<"127.0.0.1:9000", "127.0.0.1:9000">>) >>
    /\ Len(ResolveFunc(o.Resolver, "keyA").Instances) = 2

----------------------------------------------------------------------------
(* C12: WithTransportProtocol with an identifier naming no known protocol  *)
(* panics and leaves every field of the Options (transport protocol,       *)
(* connection pool and handler factory among them) and the slice as they   *)
(* were.                                                                   *)
C12_UnknownProtocolAborts ==
    [][ \A tp \in Protocols :
          (ProtocolString(tp) = Unknown /\ Applying(OptWithTransportProtocol(tp))) =>
              /\ panicked'
              /\ o' = o
              /\ di' = di ]_vars

C12_Witness ==
    /\ applied = << OptWithTransportProtocol("GRPC"), OptWithTransportProtocol("Invalid") >>
    /\ panicked
    /\ o.TransportProtocol = "GRPC"
    /\ o.ConnPool = Nphttp2ConnPool
    /\ o.CliHandlerFactory = "nphttp2"

----------------------------------------------------------------------------
(* C13: WithTransportProtocol with a known identifier does not panic and   *)
(* sets the transport protocol to it; for GRPC it also installs the gRPC   *)
(* connection pool and handler factory (both non-nil), for every other     *)
(* known identifier the pool and the factory stay exactly as they were.    *)
(* No other field of the Options changes.                                  *)
C13_KnownProtocolEffect ==
    [][ \A tp \in KnownProtocols :
          Applying(OptWithTransportProtocol(tp)) =>
              /\ ~panicked'
              /\ o'.TransportProtocol = tp
              /\ IF tp = "GRPC"
                 THEN /\ o'.ConnPool = Nphttp2ConnPool
                      /\ o'.ConnPool # NilConnPool
                      /\ o'.CliHandlerFactory = "nphttp2"
                      /\ o'.CliHandlerFactory # NilStr
                 ELSE /\ o'.ConnPool = o.ConnPool
                      /\ o'.CliHandlerFactory = o.CliHandlerFactory
              /\ o' = [o EXCEPT !.TransportProtocol = o'.TransportProtocol,
                                !.ConnPool = o'.ConnPool,
                                !.CliHandlerFactory = o'.CliHandlerFactory] ]_vars

C13_Witness ==
    /\ applied = << OptWithMuxConnection(2), OptWithTransportProtocol("Framed") >>
    /\ ~panicked
    /\ o.TransportProtocol = "Framed"
    /\ o.ConnPool = NewMuxConnPool(2)
    /\ o.CliHandlerFactory = "netpollmux"

----------------------------------------------------------------------------
(* C14: WithRPCTimeout(d) sets the RPC timeout to d and adds the           *)
(* RPC-timeout bit to the lock bits, every other bit as it was;            *)
(* WithConnectTimeout does the same for the connect timeout and its bit.   *)
(* A later WithRPCTimeout overwrites the value, and no step of the build,  *)
(* whatever Option it applies, clears a lock bit.                          *)
C14_TimeoutSetsValueAndLock ==
    [][ /\ \A d \in Durations :
             Applying(OptWithRPCTimeout(d)) =>
                 /\ ~panicked'
                 /\ o'.RPCTimeout = d
                 /\ o'.LockBits = o.LockBits \cup {"BitRPCTimeout"}
                 /\ o'.ConnectTimeout = o.ConnectTimeout
        /\ \A d \in Durations :
             Applying(OptWithConnectTimeout(d)) =>
                 /\ ~panicked'
                 /\ o'.ConnectTimeout = d
                 /\ o'.LockBits = o.LockBits \cup {"BitConnectTimeout"}
                 /\ o'.RPCTimeout = o.RPCTimeout
        /\ o.LockBits \subseteq o'.LockBits ]_vars

C14_Witness ==
    /\ applied = << OptWithRPCTimeout(10), OptWithRPCTimeout(20) >>
    /\ ~panicked
    /\ o.RPCTimeout = 20
    /\ o.LockBits = {"BitRPCTimeout"}

----------------------------------------------------------------------------
\* the keys of a tag map
TagKeysOf(tags) == { t.key : t \in tags }

(* C15: WithTag(key, val) sets tags[key] to val and locks key in the same  *)
(* step, every other tag and lock as it was; so in every state of every    *)
(* build from blank Options each key of the tag map is locked, a key holds *)
(* one value (the last one set), and no step removes a key from the locks. *)
C15_TagsAreLocked ==
    [][ /\ TagKeysOf(o.Tags) \subseteq o.LockTags
        /\ TagKeysOf(o'.Tags) \subseteq o'.LockTags
        /\ o.LockTags \subseteq o'.LockTags
        /\ \A t1, t2 \in o'.Tags : t1.key = t2.key => t1 = t2
        /\ \A k \in TagKeys, v \in TagVals :
             Applying(OptWithTag(k, v)) =>
                 /\ ~panicked'
                 /\ o'.Tags = {t \in o.Tags : t.key # k} \cup {[key |-> k, val |-> v]}
                 /\ o'.LockTags = o.LockTags \cup {k} ]_vars

C15_Witness ==
    /\ applied = << OptWithTag("idc", "v1"), OptWithTag("idc", "v2") >>
    /\ ~panicked
    /\ o.Tags = {[key |-> "idc", val |-> "v2"]}
    /\ o.LockTags = {"idc"}

----------------------------------------------------------------------------
\* the pool configuration the first WithLongConnection of the list fs produces
FirstPoolCfg(fs) ==
    LET leaves == FlatLeaves(fs)
        places == { i \in 1..Len(leaves) : leaves[i].op = "WithLongConnection" }
    IN IF places = {} THEN NilPoolCfg
       ELSE CheckPoolConfig(leaves[Min(places)].s[1])

(* C16: WithLongConnection is first-wins: after every build that did not   *)
(* panic the pool configuration is the one the first WithLongConnection    *)
(* applied produced (nil when there was none); every later                 *)
(* WithLongConnection, whatever its argument, does not panic and leaves    *)
(* the pool configuration and every other field of the Options unchanged.  *)
C16_LongConnectionFirstWins ==
    [][ /\ ~panicked' => o'.PoolCfg = FirstPoolCfg(applied')
        /\ \A cfg \in IdleConfigs :
             Applying(OptWithLongConnection(cfg)) =>
                 /\ ~panicked'
                 /\ o' = [o EXCEPT !.PoolCfg = o'.PoolCfg]
                 /\ FirstPoolCfg(applied) # NilPoolCfg => o' = o
                 /\ FirstPoolCfg(applied) = NilPoolCfg =>
                        o'.PoolCfg = CheckPoolConfig(cfg) ]_vars

C16_Witness ==
    /\ applied = << OptWithLongConnection("idle1"), OptWithLongConnection("idle2") >>
    /\ ~panicked
    /\ o.PoolCfg = CheckPoolConfig("idle1")
    /\ Len(di) = 2

----------------------------------------------------------------------------
\* the multiplexing pool, its handler factory and TTHeader are all in effect
MuxInEffect(opts, connNum) ==
    /\ opts.ConnPool = NewMuxConnPool(connNum)
    /\ opts.CliHandlerFactory = "netpollmux"
    /\ opts.TransportProtocol = "TTHeader"

(* C17: WithMuxConnection makes its three changes together: right after it *)
(* is applied, whatever the Options were before, the connection pool is    *)
(* the multiplexing pool, the handler factory the multiplexing factory and *)
(* the transport protocol TTHeader, every other field as it was; the same  *)
(* holds after a build whose last Option, directly or as the last member   *)
(* of a suite, is WithMuxConnection.                                       *)
C17_MuxConnectionAtomic ==
    [][ /\ \A n \in ConnNums :
             Applying(OptWithMuxConnection(n)) =>
                 /\ ~panicked'
                 /\ MuxInEffect(o', n)
                 /\ o' = [o EXCEPT !.ConnPool = o'.ConnPool,
                                   !.CliHandlerFactory = o'.CliHandlerFactory,
                                   !.TransportProtocol = o'.TransportProtocol]
        /\ LET leaves == FlatLeaves(applied') IN
           (/\ ~panicked'
            /\ Len(leaves) > 0
            /\ leaves[Len(leaves)].op = "WithMuxConnection") =>
               MuxInEffect(o', leaves[Len(leaves)].n) ]_vars

C17_Witness ==
    /\ applied = << OptWithTransportProtocol("GRPC"), OptWithMuxConnection(2) >>
    /\ ~panicked
    /\ MuxInEffect(o, 2)

----------------------------------------------------------------------------
\* the tracers the WithTracer Options of the list fs register, in list order
RegisteredTracers(fs) ==
    LET regs == SelectSeq(FlatLeaves(fs), LAMBDA f : f.op = "WithTracer")
    IN [i \in 1..Len(regs) |-> regs[i].s[1]]

(* C18: tracer registration is cumulative: the tracer controller is nil    *)
(* until the first WithTracer, which creates it; after every build that    *)
(* did not panic its list holds the tracers of the WithTracer Options      *)
(* applied, in the order applied; and no step of a build drops or replaces *)
(* a tracer registered before it.                                          *)
C18_TracersAccumulate ==
    [][ /\ ~panicked =>
             /\ o.TracerCtl.Tracers = RegisteredTracers(applied)
             /\ o.TracerCtl.Ptr <=> RegisteredTracers(applied) # <<>>
        /\ ~panicked' =>
             /\ o'.TracerCtl.Tracers = RegisteredTracers(applied')
             /\ o'.TracerCtl.Ptr <=> RegisteredTracers(applied') # <<>>
        /\ o.TracerCtl.Ptr => o'.TracerCtl.Ptr
        /\ Len(o.TracerCtl.Tracers) <= Len(o'.TracerCtl.Tracers)
        /\ \A i \in 1..Len(o.TracerCtl.Tracers) :
             o'.TracerCtl.Tracers[i] = o.TracerCtl.Tracers[i] ]_vars

C18_Witness ==
    /\ applied = << OptWithTracer("tracer2"), OptWithTracer("tracer1") >>
    /\ ~panicked
    /\ o.TracerCtl = [Ptr |-> TRUE, Tracers |-> <<"tracer2", "tracer1">>]

----------------------------------------------------------------------------
\* the retry policy rp holds exactly one variant, enabled and typed after it
OneVariant(rp) ==
    /\ rp.Ptr
    /\ (rp.FailurePolicy = NilStr) # (rp.BackupPolicy = NilStr)
    /\ rp.Enable
    /\ rp.Type = (IF rp.FailurePolicy # NilStr THEN "FailureType" ELSE "BackupType")

(* C19: in every state of every build from blank Options, the one a panic  *)
(* leaves behind included, the retry policy is nil or holds exactly one    *)
(* variant: FailurePolicy and BackupPolicy are never both non-nil and never *)
(* both nil, Enable is true and Type names the variant held.  Applying the *)
(* same variant again does not panic and replaces the policy held.         *)
C19_RetryPolicyWellFormed ==
    /\ o.RetryPolicy = NilRetryPolicy \/ OneVariant(o.RetryPolicy)
    /\ \A p, q \in FailurePolicies :
         applied = << OptWithFailureRetry(p), OptWithFailureRetry(q) >> =>
             /\ ~panicked
             /\ o.RetryPolicy.FailurePolicy = q
             /\ o.RetryPolicy.Type = "FailureType"
    /\ \A p, q \in BackupPolicies :
         applied = << OptWithBackupRequest(p), OptWithBackupRequest(q) >> =>
             /\ ~panicked
             /\ o.RetryPolicy.BackupPolicy = q
             /\ o.RetryPolicy.Type = "BackupType"

C19_Witness ==
    /\ applied = << OptWithFailureRetry("fp2"), OptWithBackupRequest("bp2") >>
    /\ panicked
    /\ OneVariant(o.RetryPolicy)
    /\ o.RetryPolicy.FailurePolicy = "fp2"
    /\ o.RetryPolicy.BackupPolicy = NilStr

----------------------------------------------------------------------------
(* C20 as stated: the connection pool installed matches the transport      *)
(* protocol in effect: the gRPC pool only with GRPC, the multiplexing pool *)
(* only with TTHeader.                                                     *)
C20_PoolMatchesProtocol ==
    /\ o.ConnPool = Nphttp2ConnPool => o.TransportProtocol = "GRPC"
    /\ o.CliHandlerFactory = "nphttp2" => o.TransportProtocol = "GRPC"
    /\ o.ConnPool \in { NewMuxConnPool(n) : n \in ConnNums } =>
           o.TransportProtocol = "TTHeader"
    /\ o.CliHandlerFactory = "netpollmux" => o.TransportProtocol = "TTHeader"

\* the pool and the handler factory are a pair: none, gRPC's or the multiplexing one
PoolFactoryPair(opts) ==
    \/ opts.ConnPool = NilConnPool /\ opts.CliHandlerFactory = NilStr
    \/ opts.ConnPool = Nphttp2ConnPool /\ opts.CliHandlerFactory = "nphttp2"
    \/ /\ opts.ConnPool \in { NewMuxConnPool(n) : n \in ConnNums }
       /\ opts.CliHandlerFactory = "netpollmux"

\* the Option f installs a pool and a handler factory
Installs(f) ==
    \/ f.op = "WithMuxConnection"
    \/ f.op = "WithTransportProtocol" /\ f.s[1] = "GRPC"

\* the Option f selects a transport protocol
Selects(f) ==
    \/ f.op = "WithMuxConnection"
    \/ f.op = "WithTransportProtocol" /\ f.s[1] \in KnownProtocols

(* C20, amended: the pool and the handler factory are always a matching    *)
(* pair, the pair of the Option that installed last (WithMuxConnection or  *)
(* WithTransportProtocol(GRPC)), and the transport protocol is the one     *)
(* selected last; the pair matches the protocol unless a                   *)
(* WithTransportProtocol with another known identifier came after the      *)
(* install: it changes the protocol and leaves the pair in place.          *)
C20_PoolFollowsLastInstall ==
    LET fl == FlatLeaves(applied)
        inst == { i \in 1..Len(fl) : Installs(fl[i]) }
        sel == { i \in 1..Len(fl) : Selects(fl[i]) }
    IN /\ PoolFactoryPair(o)
       /\ ~panicked =>
            /\ o.ConnPool = (IF inst = {} THEN NilConnPool
                             ELSE IF fl[Max(inst)].op = "WithMuxConnection"
                                  THEN NewMuxConnPool(fl[Max(inst)].n)
                                  ELSE Nphttp2ConnPool)
            /\ o.TransportProtocol = (IF sel = {} THEN BlankOptions.TransportProtocol
                                      ELSE IF fl[Max(sel)].op = "WithMuxConnection"
                                           THEN "TTHeader"
                                           ELSE fl[Max(sel)].s[1])
            /\ (inst # {} /\ Max(inst) = Max(sel)) => C20_PoolMatchesProtocol
            /\ (inst # {} /\ ~C20_PoolMatchesProtocol) =>
                   /\ Max(sel) > Max(inst)
                   /\ fl[Max(sel)].op = "WithTransportProtocol"

C20_Witness ==
    /\ applied = << OptWithTransportProtocol("GRPC"), OptWithTransportProtocol("TTHeader") >>
    /\ ~panicked
    /\ o.ConnPool = Nphttp2ConnPool
    /\ o.CliHandlerFactory = "nphttp2"
    /\ o.TransportProtocol = "TTHeader"

====
